---- MODULE Spec2Model ----
(***************************************************************************)
(* Model of the discipline monitor (src/app.py, src/modules/               *)
(* video_processor.py): the sleep-debounce filter                          *)
(* process_frame_for_detection, the frame loops of the three stream        *)
(* drivers (process_webcam, process_video_file, process_video_url) that    *)
(* open, extend and close recorded segments, and the attribution pass      *)
(* that runs after the loop over st.session_state.violations_log.          *)
(*                                                                         *)
(* Time is counted in whole seconds: `clock` is the last value that        *)
(* time.time() returned.  time.time() is a positive epoch value, so the    *)
(* clock starts at Epoch >= 1 and Python's truthiness tests on timestamps  *)
(* (`if last_detection_time:`) are modelled as written.  Only the runs of  *)
(* SpecSubsecond count time in cfg.ticks-th parts of a second.             *)
(***************************************************************************)
EXTENDS Integers, Sequences, FiniteSets, TLC

VARIABLES
    pc,              \* "idle" (no driver running), "loop" (frame loop), "attrib" (face analysis loop)
    clock,           \* last reading of the wall clock
    cfg,             \* arguments of the running driver
    cap_open,        \* cap.isOpened()
    loc,             \* local variables of the running driver
    vp,              \* st.session_state.video_processor (writer, recording)
    violations_log,  \* st.session_state.violations_log
    processing,      \* st.session_state.processing
    todo,            \* violations_to_process not yet visited by the attribution loop
    exit_reason,     \* how the last frame loop / driver ended
    runs,            \* number of driver runs started in this session
    calls,           \* collaborator calls made by the last step
    source,          \* what the frame source of the running driver shows
    report,          \* the items of the last report written by generate_report
    hist             \* history of the inputs, kept for stating properties only

vars == <<pc, clock, cfg, cap_open, loc, vp, violations_log, processing,
          todo, exit_reason, runs, calls, source, report, hist>>

----------------------------------------------------------------------------
(* Bounds of the model *)

Epoch == 1
MaxFrames == 4
MaxTime == 2
MaxSkip == 2
MaxBuffer == 1
MaxSleepBuffer == 1
MaxRuns == 2
SessionFrames == 3
SessionTime == 2
TicksPerSecond == 3
SubsecondFrames == 3
SubsecondTime == 4
MaxFileFrames == 3
LockstepFrames == 4
LockstepTime == 2

----------------------------------------------------------------------------
(* Values *)

None == -1

\* class vocabulary of the detector, in the order sorted() gives
ClassList == <<"phone", "sleeping">>

Classes == {ClassList[i] : i \in 1..Len(ClassList)}

Drivers == {"webcam", "file", "url"}

\* 'Обработка...'
Pending == "Obrabotka..."

\* 'N/A'
NoConfidence == "N/A"

\* "Не опознан"
NotRecognized == "Ne opoznan"

\* "Ошибка анализа"
AnalysisError == "Oshibka analiza"

\* "Нет БД"
NoDatabase == "Net BD"

\* Python truthiness of an optional timestamp
Truthy(x) == x # None /\ x # 0


SecondsPerDay == 86400

\* the value of current_segment_path before any segment was opened
NoPath == [dir |-> None, file |-> None]

\* os.path.join(segments_dir, filename): a date-scoped directory (%Y-%m-%d)
\* and a time-of-day file name (seg_%H-%M-%S.mp4), both read from the clock
generate_segment_filename(now) == now % SecondsPerDay

setup_output_dirs(now) == now \div SecondsPerDay

SegmentPath(now) ==
    [dir |-> setup_output_dirs(now), file |-> generate_segment_filename(now)]

\* datetime.now() at a moment when time.time() reads t: strftime drops the
\* fraction of the second (t counts 1/ticks of a second)
WholeSeconds(t, ticks) == t \div ticks

\* datetime.now().strftime("%H:%M:%S")
LogTime(now) == now % SecondsPerDay

\* sorted(rec_violations) followed by ", ".join: the class names in
\* alphabetical order; the joined string is modelled by its sequence of names
SortedJoin(S) == SelectSeq(ClassList, LAMBDA c : c \in S)

\* ", ".join(rec_violations) over an unsorted set: the names in the set's
\* iteration order `order` (a permutation of the vocabulary)
UnsortedJoin(S, order) == SelectSeq(order, LAMBDA c : c \in S)

Range(s) == {s[i] : i \in 1..Len(s)}

IterationOrders ==
    {o \in [1..Len(ClassList) -> Classes] : Range(o) = Classes}

----------------------------------------------------------------------------
(* VideoProcessor (src/modules/video_processor.py) *)

VideoProcessor == [writer |-> NoPath, recording |-> FALSE]

start_recording(V, output_path) == [writer |-> output_path, recording |-> TRUE]

\* mutant: write_frame never writes
write_frame_never(V) == FALSE

\* TRUE when write_frame really writes the frame to the open file
write_frame(V) == V.writer # NoPath /\ V.recording

\* mutant: stop_recording does nothing
stop_recording_noop(V) == V

\* mutant: recording is cleared but the writer is neither released nor dropped
stop_recording_leak(V) ==
    IF V.writer # NoPath THEN [writer |-> V.writer, recording |-> FALSE] ELSE V

stop_recording(V) ==
    IF V.writer # NoPath THEN [writer |-> NoPath, recording |-> FALSE] ELSE V

----------------------------------------------------------------------------
(* process_frame_for_detection (src/app.py) *)

\* mutant: exclusive debounce boundary
DebounceElapsed_strict(current_time, new_sleep_start_time, sleep_buffer) ==
    (current_time - new_sleep_start_time) > sleep_buffer

\* (current_time - new_sleep_start_time) >= sleep_buffer
DebounceElapsed(current_time, new_sleep_start_time, sleep_buffer) ==
    (current_time - new_sleep_start_time) >= sleep_buffer

\* mutant: the timer runs only on frames that show nothing but 'sleeping'
SleepTimer_exclusive(current_time, detections, sleep_start_time) ==
    IF detections = {"sleeping"}
    THEN (IF sleep_start_time = None THEN current_time ELSE sleep_start_time)
    ELSE None

\* mutant: the timer is restarted on every frame that shows 'sleeping'
SleepTimer_restart(current_time, detections, sleep_start_time) ==
    IF "sleeping" \in detections THEN current_time ELSE None

\* mutant: the timer survives a frame without 'sleeping'
SleepTimer_noreset(current_time, detections, sleep_start_time) ==
    IF "sleeping" \in detections
    THEN (IF sleep_start_time = None THEN current_time ELSE sleep_start_time)
    ELSE sleep_start_time

\* the timer after the `if sleep_detected_in_frame` statement
SleepTimer(current_time, detections, sleep_start_time) ==
    IF "sleeping" \in detections
    THEN (IF sleep_start_time = None THEN current_time ELSE sleep_start_time)
    ELSE None

\* mutant: every class of the vocabulary but 'sleeping' is confirmed
OtherViolations_vocabulary(detections) == Classes \ {"sleeping"}

\* the classes added by the `for class_name in detections` loop
OtherViolations(detections) == {c \in detections : c # "sleeping"}

\* mutant: the loop over the other classes does not set the confirmation time
process_frame_for_detection_notime(current_time, detections, sleep_start_time, sleep_buffer) ==
    LET new_sleep_start_time == SleepTimer(current_time, detections, sleep_start_time)
        sleep_confirmed ==
            /\ "sleeping" \in detections
            /\ DebounceElapsed(current_time, new_sleep_start_time, sleep_buffer)
        others == OtherViolations(detections)
    IN  [confirmed_violations |->
             (IF sleep_confirmed THEN {"sleeping"} ELSE {}) \cup others,
         new_sleep_start_time |-> new_sleep_start_time,
         new_last_detection_time |->
             IF sleep_confirmed THEN current_time ELSE None]

process_frame_for_detection(current_time, detections, sleep_start_time, sleep_buffer) ==
    LET new_sleep_start_time == SleepTimer(current_time, detections, sleep_start_time)
        sleep_confirmed ==
            /\ "sleeping" \in detections
            /\ DebounceElapsed(current_time, new_sleep_start_time, sleep_buffer)
        others == OtherViolations(detections)
    IN  [confirmed_violations |->
             (IF sleep_confirmed THEN {"sleeping"} ELSE {}) \cup others,
         new_sleep_start_time |-> new_sleep_start_time,
         new_last_detection_time |->
             IF sleep_confirmed \/ others # {} THEN current_time ELSE None]

----------------------------------------------------------------------------
(* One iteration of the frame loop of each stream driver (src/app.py).     *)
(* L: the driver's locals, V: the VideoProcessor, log: the violations log, *)
(* c: the driver's arguments, detections: the class names the detector     *)
(* returns for this frame (read only when the frame is sampled).           *)

\* the locals as the drivers initialise them before the loop
InitialLocals ==
    [frame_count |-> 0,
     sleep_start_time |-> None,
     last_detection_time |-> None,
     recording |-> FALSE,
     rec_violations |-> {},
     current_segment_path |-> NoPath,
     last_detections |-> {},
     last_confirmed_violations |-> {},
     confirmed_violations |-> {},
     detection_time |-> None,
     current_time |-> None,
     violations_to_draw |-> {}]   \* the classes given to draw_detections on the last frame

\* mutant: the first frame is sampled and every frame_skip-th frame after it
IsSampled_from_first(frame_count, frame_skip) == (frame_count - 1) % frame_skip = 0

\* if frame_count % frame_skip == 0
IsSampled(frame_count, frame_skip) == frame_count % frame_skip = 0

\* mutant: the returned confirmation time is stored on every sampled frame
UpdateLastDetectionTime_always(last_detection_time, confirmed_violations, detection_time) ==
    detection_time

\* mutant: the time of the first confirmation of the run is kept
UpdateLastDetectionTime_first(last_detection_time, confirmed_violations, detection_time) ==
    IF confirmed_violations # {} /\ Truthy(detection_time) /\ last_detection_time = None
    THEN detection_time
    ELSE last_detection_time

\* if confirmed_violations and detection_time: last_detection_time = detection_time
UpdateLastDetectionTime(last_detection_time, confirmed_violations, detection_time) ==
    IF confirmed_violations # {} /\ Truthy(detection_time)
    THEN detection_time
    ELSE last_detection_time

\* mutant: the segment is closed as soon as the buffer is used up
BufferExpired_inclusive(current_time, last_detection_time, buffer_seconds) ==
    (current_time - last_detection_time) >= buffer_seconds

\* (current_time - last_detection_time) > buffer_seconds
BufferExpired(current_time, last_detection_time, buffer_seconds) ==
    (current_time - last_detection_time) > buffer_seconds

\* mutant: the update empties the accumulated types
UpdateRecViolations_clear(rec_violations, confirmed_violations) == {}

\* mutant: the accumulated types are replaced instead of extended
UpdateRecViolations_replace(rec_violations, confirmed_violations) ==
    confirmed_violations

\* rec_violations.update(confirmed_violations)
UpdateRecViolations(rec_violations, confirmed_violations) ==
    rec_violations \cup confirmed_violations

\* mutant: a segment is started on every confirmation
StartsSegment_always(confirmed_violations, recording) ==
    confirmed_violations # {}

\* `if confirmed_violations: if not recording:` - a new segment is started
StartsSegment(confirmed_violations, recording) ==
    confirmed_violations # {} /\ ~recording

\* mutant: the new entry is put in front of the log
AppendEntry_front(log, entry) == <<entry>> \o log

\* st.session_state.violations_log.append({...})
AppendEntry(log, entry) == Append(log, entry)

\* the dictionary appended to the log when a segment is closed
LogEntry(path, now, violation) ==
    [path |-> path,
     time |-> LogTime(now),
     violation |-> violation,
     student |-> Pending,
     confidence |-> NoConfidence]

\* mutant: the boxes of every detected class are requested
ViolationsToDraw_detected(driver, last_detections, last_confirmed_violations) ==
    last_detections

\* the third argument of detector.draw_detections: process_video_file gives
\* last_confirmed_violations, the live drivers
\* last_confirmed_violations & set(last_detections.keys())
ViolationsToDraw(driver, last_detections, last_confirmed_violations) ==
    IF driver = "file"
    THEN last_confirmed_violations
    ELSE last_confirmed_violations \cap last_detections

\* the condition under which detector.draw_detections is called
DrawsDetections(driver, recording, last_detections, last_confirmed_violations) ==
    IF driver = "file"
    THEN recording \/ last_confirmed_violations # {}
    ELSE /\ last_detections # {}
         /\ last_confirmed_violations # {}
         /\ ViolationsToDraw(driver, last_detections, last_confirmed_violations) # {}

process_video_file_iteration(L, V, log, c, current_time, detections) ==
    LET frame_count == L.frame_count + 1
        sampled == IsSampled(frame_count, c.frame_skip)
        r == process_frame_for_detection(current_time, detections,
                                         L.sleep_start_time, c.sleep_buffer)
        confirmed_violations == IF sampled THEN r.confirmed_violations ELSE {}
        sleep_start_time ==
            IF sampled THEN r.new_sleep_start_time ELSE L.sleep_start_time
        detection_time ==
            IF sampled THEN r.new_last_detection_time ELSE L.detection_time
        last_detections == IF sampled THEN detections ELSE L.last_detections
        last_confirmed_1 ==
            IF sampled THEN confirmed_violations ELSE L.last_confirmed_violations
        last_detection_time ==
            IF sampled
            THEN UpdateLastDetectionTime(L.last_detection_time, confirmed_violations,
                                         detection_time)
            ELSE L.last_detection_time
        \* recording logic
        starts == StartsSegment(confirmed_violations, L.recording)
        current_segment_path ==
            IF starts THEN SegmentPath(WholeSeconds(current_time, c.ticks))
            ELSE L.current_segment_path
        V1 == IF starts THEN start_recording(V, current_segment_path) ELSE V
        recording_1 == L.recording \/ starts
        rec_violations ==
            IF starts THEN confirmed_violations
            ELSE IF confirmed_violations # {}
                 THEN UpdateRecViolations(L.rec_violations, confirmed_violations)
                 ELSE L.rec_violations
        \* end of recording
        stops == /\ recording_1
                 /\ Truthy(last_detection_time)
                 /\ BufferExpired(current_time, last_detection_time, c.buffer_seconds)
        \* visualisation
        draws == DrawsDetections(c.driver, recording_1, last_detections, last_confirmed_1)
        violations_to_draw ==
            IF draws THEN ViolationsToDraw(c.driver, last_detections, last_confirmed_1)
            ELSE {}
        \* the locals when write_frame is reached
        L1 == [frame_count |-> frame_count,
               sleep_start_time |-> sleep_start_time,
               last_detection_time |-> last_detection_time,
               recording |-> recording_1,
               rec_violations |-> rec_violations,
               current_segment_path |-> current_segment_path,
               last_detections |-> last_detections,
               last_confirmed_violations |-> last_confirmed_1,
               confirmed_violations |-> confirmed_violations,
               detection_time |-> detection_time,
               current_time |-> current_time,
               violations_to_draw |-> violations_to_draw]
    IN  [loc |-> IF stops
                 THEN [L1 EXCEPT !.recording = FALSE, !.last_confirmed_violations = {}]
                 ELSE L1,
         vp |-> IF stops THEN stop_recording(V1) ELSE V1,
         log |-> IF stops
                 THEN AppendEntry(log, LogEntry(current_segment_path,
                                                WholeSeconds(current_time, c.ticks),
                                                SortedJoin(rec_violations)))
                 ELSE log,
         at_write |-> [loc |-> L1, vp |-> V1],
         calls |-> (IF sampled THEN {"detect_frame"} ELSE {})
                   \cup (IF starts THEN {"start_recording"} ELSE {})
                   \cup (IF draws THEN {"draw_detections"} ELSE {})
                   \cup (IF recording_1 THEN {"write_frame"} ELSE {})
                   \cup (IF recording_1 /\ write_frame(V1) THEN {"written"} ELSE {})
                   \cup (IF stops THEN {"stop_recording", "append"} ELSE {})]

process_webcam_iteration(L, V, log, c, current_time, detections) ==
    LET frame_count == L.frame_count + 1
        sampled == IsSampled(frame_count, c.frame_skip)
        r == process_frame_for_detection(current_time, detections,
                                         L.sleep_start_time, c.sleep_buffer)
        confirmed_violations == IF sampled THEN r.confirmed_violations ELSE {}
        sleep_start_time ==
            IF sampled THEN r.new_sleep_start_time ELSE L.sleep_start_time
        detection_time ==
            IF sampled THEN r.new_last_detection_time ELSE L.detection_time
        last_detections == IF sampled THEN detections ELSE L.last_detections
        last_confirmed_1 ==
            IF sampled THEN confirmed_violations ELSE L.last_confirmed_violations
        last_detection_time ==
            IF sampled
            THEN UpdateLastDetectionTime(L.last_detection_time, confirmed_violations,
                                         detection_time)
            ELSE L.last_detection_time
        \* recording logic
        starts == StartsSegment(confirmed_violations, L.recording)
        current_segment_path ==
            IF starts THEN SegmentPath(WholeSeconds(current_time, c.ticks))
            ELSE L.current_segment_path
        V1 == IF starts THEN start_recording(V, current_segment_path) ELSE V
        recording_1 == L.recording \/ starts
        rec_violations ==
            IF starts THEN confirmed_violations
            ELSE IF confirmed_violations # {}
                 THEN UpdateRecViolations(L.rec_violations, confirmed_violations)
                 ELSE L.rec_violations
        \* end of recording
        stops == /\ recording_1
                 /\ Truthy(last_detection_time)
                 /\ BufferExpired(current_time, last_detection_time, c.buffer_seconds)
        \* visualisation
        draws == DrawsDetections(c.driver, recording_1, last_detections, last_confirmed_1)
        violations_to_draw ==
            IF draws THEN ViolationsToDraw(c.driver, last_detections, last_confirmed_1)
            ELSE {}
        \* the locals when write_frame is reached
        L1 == [frame_count |-> frame_count,
               sleep_start_time |-> sleep_start_time,
               last_detection_time |-> last_detection_time,
               recording |-> recording_1,
               rec_violations |-> rec_violations,
               current_segment_path |-> current_segment_path,
               last_detections |-> last_detections,
               last_confirmed_violations |-> last_confirmed_1,
               confirmed_violations |-> confirmed_violations,
               detection_time |-> detection_time,
               current_time |-> current_time,
               violations_to_draw |-> violations_to_draw]
    IN  [loc |-> IF stops
                 THEN [L1 EXCEPT !.recording = FALSE, !.last_confirmed_violations = {}]
                 ELSE L1,
         vp |-> IF stops THEN stop_recording(V1) ELSE V1,
         log |-> IF stops
                 THEN AppendEntry(log, LogEntry(current_segment_path,
                                                WholeSeconds(current_time, c.ticks),
                                                SortedJoin(rec_violations)))
                 ELSE log,
         at_write |-> [loc |-> L1, vp |-> V1],
         calls |-> (IF sampled THEN {"detect_frame"} ELSE {})
                   \cup (IF starts THEN {"start_recording"} ELSE {})
                   \cup (IF draws THEN {"draw_detections"} ELSE {})
                   \cup (IF recording_1 THEN {"write_frame"} ELSE {})
                   \cup (IF recording_1 /\ write_frame(V1) THEN {"written"} ELSE {})
                   \cup (IF stops THEN {"stop_recording", "append"} ELSE {})]

\* mutant: process_video_url opens a segment on every sampled confirmation
UrlStartsSegment_restart(sampled, confirmed_violations, recording) ==
    sampled /\ confirmed_violations # {}

\* process_video_url: `if confirmed_violations and not recording:` stands
\* inside the branch of the sampled frames
UrlStartsSegment(sampled, confirmed_violations, recording) ==
    sampled /\ StartsSegment(confirmed_violations, recording)

process_video_url_iteration(L, V, log, c, current_time, detections, order) ==
    LET frame_count == L.frame_count + 1
        sampled == IsSampled(frame_count, c.frame_skip)
        r == process_frame_for_detection(current_time, detections,
                                         L.sleep_start_time, c.sleep_buffer)
        confirmed_violations == IF sampled THEN r.confirmed_violations ELSE {}
        sleep_start_time ==
            IF sampled THEN r.new_sleep_start_time ELSE L.sleep_start_time
        detection_time ==
            IF sampled THEN r.new_last_detection_time ELSE L.detection_time
        last_detections == IF sampled THEN detections ELSE L.last_detections
        last_confirmed_violations ==
            IF sampled THEN confirmed_violations ELSE L.last_confirmed_violations
        last_detection_time ==
            IF sampled
            THEN UpdateLastDetectionTime(L.last_detection_time, confirmed_violations,
                                         detection_time)
            ELSE L.last_detection_time
        \* recording logic, inside the sampled branch
        starts == UrlStartsSegment(sampled, confirmed_violations, L.recording)
        current_segment_path ==
            IF starts THEN SegmentPath(WholeSeconds(current_time, c.ticks))
            ELSE L.current_segment_path
        V1 == IF starts THEN start_recording(V, current_segment_path) ELSE V
        recording_1 == L.recording \/ starts
        rec_violations_1 == IF starts THEN confirmed_violations ELSE L.rec_violations
        rec_violations ==
            IF sampled /\ confirmed_violations # {} /\ recording_1
            THEN UpdateRecViolations(rec_violations_1, confirmed_violations)
            ELSE rec_violations_1
        \* end of recording
        stops == /\ recording_1
                 /\ Truthy(last_detection_time)
                 /\ BufferExpired(current_time, last_detection_time, c.buffer_seconds)
        \* visualisation
        draws == DrawsDetections(c.driver, recording_1, last_detections, last_confirmed_violations)
        violations_to_draw ==
            IF draws THEN ViolationsToDraw(c.driver, last_detections, last_confirmed_violations)
            ELSE {}
        \* the locals when write_frame is reached
        L1 == [frame_count |-> frame_count,
               sleep_start_time |-> sleep_start_time,
               last_detection_time |-> last_detection_time,
               recording |-> recording_1,
               rec_violations |-> rec_violations,
               current_segment_path |-> current_segment_path,
               last_detections |-> last_detections,
               last_confirmed_violations |-> last_confirmed_violations,
               confirmed_violations |-> confirmed_violations,
               detection_time |-> detection_time,
               current_time |-> current_time,
               violations_to_draw |-> violations_to_draw]
    IN  [loc |-> IF stops THEN [L1 EXCEPT !.recording = FALSE] ELSE L1,
         vp |-> IF stops THEN stop_recording(V1) ELSE V1,
         log |-> IF stops
                 THEN AppendEntry(log, LogEntry(current_segment_path,
                                                WholeSeconds(current_time, c.ticks),
                                                UnsortedJoin(rec_violations, order)))
                 ELSE log,
         at_write |-> [loc |-> L1, vp |-> V1],
         calls |-> (IF sampled THEN {"detect_frame"} ELSE {})
                   \cup (IF starts THEN {"start_recording"} ELSE {})
                   \cup (IF draws THEN {"draw_detections"} ELSE {})
                   \cup (IF recording_1 THEN {"write_frame"} ELSE {})
                   \cup (IF recording_1 /\ write_frame(V1) THEN {"written"} ELSE {})
                   \cup (IF stops THEN {"stop_recording", "append"} ELSE {})]

\* max_frames of the live drivers; process_video_file has no cap
max_frames_webcam == 9000

max_frames_url == 3000

\* mutant: the loop condition does not look at frame_count
BelowFrameCap_none(driver, frame_count) == TRUE

\* the loop condition on frame_count
BelowFrameCap(driver, frame_count) ==
    CASE driver = "webcam" -> frame_count < max_frames_webcam
      [] driver = "url" -> frame_count < max_frames_url
      [] OTHER -> TRUE

iteration(L, V, log, c, current_time, detections, order) ==
    CASE c.driver = "webcam" ->
             process_webcam_iteration(L, V, log, c, current_time, detections)
      [] c.driver = "url" ->
             process_video_url_iteration(L, V, log, c, current_time, detections, order)
      [] OTHER ->
             process_video_file_iteration(L, V, log, c, current_time, detections)

----------------------------------------------------------------------------
(* The attribution pass after the frame loop (src/app.py) *)

\* results of face_recognizer.analyze_video_segment: a name with a score in
\* thousandths, or an exception
MatchOutcomes ==
    {[raised |-> FALSE, name |-> "Ivanov", score |-> 800],
     [raised |-> FALSE, name |-> "Neizvestnyj", score |-> 496],
     [raised |-> TRUE, name |-> "", score |-> 0]}

\* f"{score:.0%}"
FormatPercent(score) == ToString((score + 5) \div 10) \o "%"

\* mutant: the pass is given every entry of the log
violations_to_process_all(log) == [i \in 1..Len(log) |-> i]

\* mutant: the pass is given only the first pending entry
violations_to_process_first(log) ==
    LET all == SelectSeq([i \in 1..Len(log) |-> i], LAMBDA i : log[i].student = Pending)
    IN  IF all = <<>> THEN <<>> ELSE <<Head(all)>>

\* violations_to_process: the indices of the pending entries, in log order
violations_to_process(log) ==
    SelectSeq([i \in 1..Len(log) |-> i], LAMBDA i : log[i].student = Pending)

\* the try branch of the attribution loop for entry i
MatchSucceeded(log, i, name, score) ==
    [log EXCEPT ![i].student = name, ![i].confidence = FormatPercent(score)]

\* mutant: the handler marks every entry that is still pending
MatchFailed_all(log, i) ==
    [j \in 1..Len(log) |->
        IF j = i \/ log[j].student = Pending
        THEN [log[j] EXCEPT !.student = NotRecognized, !.confidence = AnalysisError]
        ELSE log[j]]

\* the except branch of the attribution loop for entry i
MatchFailed(log, i) ==
    [log EXCEPT ![i].student = NotRecognized, ![i].confidence = AnalysisError]

\* mutant: the else branch marks every entry of the log
MarkNoDatabase_all(log) ==
    [i \in 1..Len(log) |->
        [log[i] EXCEPT !.student = NotRecognized, !.confidence = NoDatabase]]

\* the else branch: no recognizer or no database
MarkNoDatabase(log) ==
    [i \in 1..Len(log) |->
        IF log[i].student = Pending
        THEN [log[i] EXCEPT !.student = NotRecognized, !.confidence = NoDatabase]
        ELSE log[i]]

----------------------------------------------------------------------------
(* VideoProcessor.generate_report (src/modules/video_processor.py) *)

\* `score >= 0.5`, scores counted in thousandths
ReportThreshold == 500

\* the empty confidence of a label without a score
NoScore == ""

\* student_info of one item: the matcher is run again on the item's segment
\* when a recognizer with a database is there; outcome is what it does
student_info(db_available, outcome) ==
    IF ~db_available
    THEN [student |-> NotRecognized, confidence |-> NoScore]
    ELSE IF outcome.raised
    THEN [student |-> AnalysisError, confidence |-> NoScore]
    ELSE IF outcome.score >= ReportThreshold
    THEN [student |-> outcome.name, confidence |-> FormatPercent(outcome.score)]
    ELSE [student |-> NotRecognized, confidence |-> NoScore]

\* the items written to the report file, one for each entry of segments_data
generate_report(segments_data, db_available, outcomes) ==
    [i \in 1..Len(segments_data) |->
        [time |-> segments_data[i].time,
         violation |-> segments_data[i].violation,
         student_info |-> student_info(db_available, outcomes[i]),
         path |-> segments_data[i].path]]

----------------------------------------------------------------------------
(* Frame sources *)

LiveSource == [kind |-> "live", n |-> 0]

\* a source of a session in which the driver is started more than once
SessionSource == [kind |-> "session", n |-> 0]

\* a source whose frames are less than a second apart: its times are counted
\* in 1/TicksPerSecond of a second
SubsecondSource == [kind |-> "subsecond", n |-> 0]

\* a camera or stream that always delivers a frame
EndlessSource == [kind |-> "endless", n |-> 0]

\* a source that delivers n frames and then fails to read
FiniteSources == {[kind |-> "finite", n |-> n] : n \in 0..MaxFileFrames}

\* a source whose frames are given to the three drivers alike
LockstepSource == [kind |-> "lockstep", n |-> 0]

TicksOf(src) == IF src.kind = "subsecond" THEN TicksPerSecond ELSE 1

\* scripted sources: one frame per second; "sleep_run" shows only 'sleeping'
\* on frames 0..n-1 and nothing afterwards, "phone_once" shows 'phone' on
\* frame n only
ScenarioFrames == 23
ScenarioRun == 12
ScenarioDebounces == {0, 5, 10}
ScenarioBuffers == {5, 10}

ScriptedSources ==
    {[kind |-> k, n |-> n] : k \in {"sleep_run", "phone_once"}, n \in 0..ScenarioRun}

ScriptDetections(src, t) ==
    CASE src.kind = "sleep_run" -> IF t < src.n THEN {"sleeping"} ELSE {}
      [] src.kind = "phone_once" -> IF t = src.n THEN {"phone"} ELSE {}
      [] OTHER -> {}

----------------------------------------------------------------------------
(* History of the inputs (not program state) *)

InitialHist ==
    [seg_union |-> {},        \* union of the confirmed sets since the segment was opened
     sleep_run_t0 |-> None,   \* time of the first frame of the current unbroken run of
                              \* sampled frames that show 'sleeping'
     sleep_gap |-> FALSE,     \* a run of 'sleeping' frames was interrupted in this run
     sleep_first |-> None,    \* time of the first sampled frame of the run that showed 'sleeping'
     closed |-> <<>>,         \* seg_union of every closed segment, in closing order
     seg_t0 |-> None,         \* clock reading of the frame that opened the last segment
     seg_written |-> 0,       \* frames written to the last segment so far
     twins |->                \* on a lockstep source: the state of each driver after
                              \* the frames read so far
         [d \in Drivers |-> [loc |-> InitialLocals, vp |-> VideoProcessor,
                             log |-> <<>>, calls |-> {}]]]

NextHist(h, sampled, detections, current_time, started, was_recording, confirmed, closed, written) ==
    LET seg_union == IF started THEN confirmed
                     ELSE IF was_recording THEN h.seg_union \cup confirmed
                     ELSE h.seg_union
    IN
    [seg_union |-> seg_union,
     sleep_run_t0 |->
         IF ~sampled THEN h.sleep_run_t0
         ELSE IF "sleeping" \notin detections THEN None
         ELSE IF h.sleep_run_t0 = None THEN current_time
         ELSE h.sleep_run_t0,
     sleep_gap |->
         h.sleep_gap \/ (sampled /\ "sleeping" \notin detections /\ h.sleep_run_t0 # None),
     sleep_first |->
         IF sampled /\ "sleeping" \in detections /\ h.sleep_first = None
         THEN current_time ELSE h.sleep_first,
     closed |-> IF closed THEN Append(h.closed, seg_union) ELSE h.closed,
     seg_t0 |-> IF started THEN current_time ELSE h.seg_t0,
     seg_written |-> (IF started THEN 0 ELSE h.seg_written) + (IF written THEN 1 ELSE 0),
     twins |-> h.twins]

\* every driver runs one iteration on the same frame
NextTwins(tw, c, current_time, detections, order) ==
    [d \in Drivers |->
        LET r == iteration(tw[d].loc, tw[d].vp, tw[d].log, [c EXCEPT !.driver = d],
                           current_time, detections, order)
        IN  [loc |-> r.loc, vp |-> r.vp, log |-> r.log, calls |-> r.calls]]

----------------------------------------------------------------------------
(* Actions *)

Init ==
    /\ pc = "idle"
    /\ clock = Epoch
    /\ cfg = [driver |-> "file", frame_skip |-> 1, buffer_seconds |-> 1, sleep_buffer |-> 0,
              ticks |-> 1]
    /\ cap_open = FALSE
    /\ loc = InitialLocals
    /\ vp = VideoProcessor
    /\ violations_log = <<>>
    /\ processing = FALSE
    /\ todo = <<>>
    /\ exit_reason = "none"
    /\ runs = 0
    /\ calls = {}
    /\ source = LiveSource
    /\ report = <<>>
    /\ hist = InitialHist

\* mutant: the handler of the outer try leaves the flag as it is
ProcessingAfterReturn_unhandled(exit) == exit = "exception"

\* st.session_state.processing as a driver leaves it when it returns: after
\* a source that could not be opened ("not_opened"), at its end ("done"), or
\* from the handler of the outer try ("exception")
ProcessingAfterReturn(exit) == FALSE

\* a driver is called with the sidebar's values and runs up to its frame loop
BeginRun(driver, frame_skip, buffer_seconds, sleep_buffer, opened, src) ==
    /\ pc = "idle"
    /\ runs' = runs + 1
    /\ cfg' = [driver |-> driver, frame_skip |-> frame_skip,
               buffer_seconds |-> buffer_seconds, sleep_buffer |-> sleep_buffer,
               ticks |-> TicksOf(src)]
    /\ source' = src
    /\ calls' = {}
    /\ todo' = <<>>
    /\ hist' = InitialHist
    /\ IF ~opened /\ driver # "file"
       THEN \* `if not cap.isOpened(): ... return`
            /\ pc' = "idle"
            /\ processing' = ProcessingAfterReturn("not_opened")
            /\ exit_reason' = "not_opened"
            /\ cap_open' = FALSE
            /\ UNCHANGED loc
       ELSE /\ pc' = "loop"
            /\ processing' = TRUE
            /\ exit_reason' = "none"
            /\ cap_open' = opened
            /\ loc' = InitialLocals
    /\ UNCHANGED <<clock, vp, violations_log, report>>

\* "Начать обработку" is pressed for the first time in a session
StartRun(driver, frame_skip, buffer_seconds, sleep_buffer, opened, src) ==
    /\ runs = 0
    /\ BeginRun(driver, frame_skip, buffer_seconds, sleep_buffer, opened, src)

\* "Начать обработку" is pressed again after a driver has returned; the
\* session keeps its video_processor and its violations_log
NextRun(driver, frame_skip, buffer_seconds, sleep_buffer, opened, src) ==
    /\ runs > 0
    /\ runs < MaxRuns
    /\ BeginRun(driver, frame_skip, buffer_seconds, sleep_buffer, opened, src)

\* one pass through the body of the while loop
Frame(dt, detections, order) ==
    /\ pc = "loop"
    /\ cap_open
    /\ BelowFrameCap(cfg.driver, loc.frame_count)
    /\ LET current_time == clock + dt
           r == iteration(loc, vp, violations_log, cfg, current_time, detections, order)
       IN  /\ clock' = current_time
           /\ loc' = r.loc
           /\ vp' = r.vp
           /\ violations_log' = r.log
           /\ calls' = r.calls
           /\ hist' =
                LET h == NextHist(hist, "detect_frame" \in r.calls, detections, current_time,
                                  "start_recording" \in r.calls, loc.recording,
                                  r.loc.confirmed_violations, "stop_recording" \in r.calls,
                                  "written" \in r.calls)
                IN  IF source.kind = "lockstep"
                    THEN [h EXCEPT !.twins = NextTwins(hist.twins, cfg, current_time,
                                                       detections, order)]
                    ELSE h
    /\ UNCHANGED <<pc, cfg, cap_open, processing, todo, exit_reason, runs, source, report>>

\* the iteration orders of rec_violations that matter on this frame: only
\* process_video_url joins the set unsorted, and only when it closes a segment
JoinOrders(dt, detections) ==
    IF /\ cfg.driver = "url"
       /\ "append" \in iteration(loc, vp, violations_log, cfg, clock + dt,
                                 detections, ClassList).calls
    THEN IterationOrders
    ELSE {ClassList}

LiveFrame ==
    /\ source.kind = "live"
    /\ loc.frame_count < MaxFrames
    /\ \E dt \in 0..MaxTime, detections \in SUBSET Classes :
        /\ clock + dt <= Epoch + MaxTime
        /\ \E order \in JoinOrders(dt, detections) : Frame(dt, detections, order)

ScriptFrame ==
    /\ source.kind # "live"
    /\ loc.frame_count < ScenarioFrames
    /\ LET dt == IF loc.frame_count = 0 THEN 0 ELSE 1
           detections == ScriptDetections(source, loc.frame_count)
       IN  \E order \in JoinOrders(dt, detections) : Frame(dt, detections, order)

\* where an iteration of the frame loop can raise: detector.detect_frame,
\* video_processor.write_frame, or the display calls at the end of the body
RaisePoints == {"detector", "writer", "display"}

\* an iteration of the frame loop raises at `at`: the statements before it
\* have run, the rest of the driver is skipped and the handler of the outer
\* try only clears the processing flag
FrameRaises(dt, detections, order, at) ==
    /\ pc = "loop"
    /\ cap_open
    /\ BelowFrameCap(cfg.driver, loc.frame_count)
    /\ LET current_time == clock + dt
           r == iteration(loc, vp, violations_log, cfg, current_time, detections, order)
       IN  /\ at = "detector" => "detect_frame" \in r.calls
           /\ at = "writer" => "write_frame" \in r.calls
           /\ clock' = current_time
           /\ loc' = CASE at = "detector" ->
                              [loc EXCEPT !.frame_count = @ + 1,
                                          !.current_time = current_time,
                                          !.confirmed_violations = {},
                                          !.violations_to_draw = {}]
                       [] at = "writer" -> r.at_write.loc
                       [] OTHER -> r.loc
           /\ vp' = CASE at = "detector" -> vp
                      [] at = "writer" -> r.at_write.vp
                      [] OTHER -> r.vp
           /\ violations_log' = IF at = "display" THEN r.log ELSE violations_log
           /\ calls' = {"raised"} \cup
                       (CASE at = "detector" -> {"detect_frame"}
                          [] at = "writer" -> r.calls \ {"written", "stop_recording", "append"}
                          [] OTHER -> r.calls)
           /\ hist' = IF at = "detector" THEN hist
                      ELSE NextHist(hist, "detect_frame" \in r.calls, detections, current_time,
                                    "start_recording" \in r.calls, loc.recording,
                                    r.loc.confirmed_violations,
                                    at = "display" /\ "stop_recording" \in r.calls,
                                    at = "display" /\ "written" \in r.calls)
    /\ pc' = "idle"
    /\ processing' = ProcessingAfterReturn("exception")
    /\ exit_reason' = "exception"
    /\ todo' = <<>>
    /\ UNCHANGED <<cfg, cap_open, runs, source, report>>

\* the frames of a session: at most one second apart, showing 'phone' or nothing
SessionDetections == SUBSET {"phone"}

SessionFrame ==
    /\ source.kind = "session"
    /\ loc.frame_count < SessionFrames
    /\ \E dt \in 0..1, detections \in SessionDetections :
        /\ clock + dt <= Epoch + SessionTime
        /\ \E order \in JoinOrders(dt, detections) : Frame(dt, detections, order)

SessionRaise ==
    /\ source.kind = "session"
    /\ loc.frame_count < SessionFrames
    /\ \E dt \in 0..1, detections \in SessionDetections, at \in RaisePoints :
        /\ clock + dt <= Epoch + SessionTime
        /\ \E order \in JoinOrders(dt, detections) : FrameRaises(dt, detections, order, at)

\* the frames of an endless or finite source, all read within one second
\* and all showing 'phone'; beyond the largest frame cap of the drivers the
\* model reads no frame
CapFrame ==
    /\ source.kind \in {"endless", "finite"}
    /\ source.kind = "finite" => loc.frame_count < source.n
    /\ loc.frame_count <= max_frames_webcam
    /\ \E order \in JoinOrders(0, {"phone"}) : Frame(0, {"phone"}, order)

\* the frames of a source whose clock readings are fractions of a second apart
SubsecondFrame ==
    /\ source.kind = "subsecond"
    /\ loc.frame_count < SubsecondFrames
    /\ \E dt \in 0..SubsecondTime, detections \in SUBSET {"phone"} :
        /\ clock + dt <= Epoch + SubsecondTime
        /\ \E order \in JoinOrders(dt, detections) : Frame(dt, detections, order)

\* the frames given to the three drivers alike
LockstepFrame ==
    /\ source.kind = "lockstep"
    /\ loc.frame_count < LockstepFrames
    /\ \E dt \in 0..LockstepTime, detections \in SUBSET Classes :
        /\ clock + dt <= Epoch + LockstepTime
        /\ \E order \in JoinOrders(dt, detections) : Frame(dt, detections, order)

\* the loop is left (no more frames, a failed read, or the frame cap) and the
\* code after the loop runs up to the first matcher call or to the return
EndLoop(db_available) ==
    /\ pc = "loop"
    /\ exit_reason' = IF ~cap_open THEN "not_opened"
                      ELSE IF ~BelowFrameCap(cfg.driver, loc.frame_count) THEN "cap"
                      ELSE "eof"
    /\ cap_open' = FALSE
    /\ vp' = IF loc.recording THEN stop_recording(vp) ELSE vp
    /\ calls' = (IF loc.recording THEN {"stop_recording"} ELSE {})
                 \cup (IF violations_log = <<>> THEN {}
                       ELSE IF db_available THEN {"db_available"}
                       ELSE {"db_unavailable"})
    /\ LET pending == violations_to_process(violations_log)
       IN  IF violations_log # <<>> /\ db_available /\ pending # <<>>
           THEN /\ pc' = "attrib"
                /\ todo' = pending
                /\ UNCHANGED <<violations_log, processing>>
           ELSE /\ pc' = "idle"
                /\ todo' = <<>>
                /\ processing' = ProcessingAfterReturn("done")
                /\ violations_log' = IF violations_log # <<>> /\ ~db_available
                                     THEN MarkNoDatabase(violations_log)
                                     ELSE violations_log
    /\ UNCHANGED <<clock, cfg, loc, runs, source, report, hist>>

\* one pass through the attribution loop; after the last entry the driver returns
AttribStep(outcome) ==
    /\ pc = "attrib"
    /\ todo # <<>>
    /\ LET i == Head(todo)
       IN  violations_log' = IF outcome.raised
                             THEN MatchFailed(violations_log, i)
                             ELSE MatchSucceeded(violations_log, i, outcome.name, outcome.score)
    /\ calls' = {IF outcome.raised THEN "match_raised" ELSE "match_returned"}
    /\ todo' = Tail(todo)
    /\ IF Tail(todo) = <<>>
       THEN pc' = "idle" /\ processing' = ProcessingAfterReturn("done")
       ELSE UNCHANGED <<pc, processing>>
    /\ UNCHANGED <<clock, cfg, cap_open, loc, vp, exit_reason, runs, source, report, hist>>

\* generate_report(violations_log, face_db_path) is called between runs
GenerateReport(db_available) ==
    /\ pc = "idle"
    /\ runs > 0
    /\ \E outcomes \in [1..Len(violations_log) -> MatchOutcomes] :
           report' = generate_report(violations_log, db_available, outcomes)
    /\ calls' = {"generate_report"}
    /\ UNCHANGED <<pc, clock, cfg, cap_open, loc, vp, violations_log, processing,
                   todo, exit_reason, runs, source, hist>>

Next ==
    \/ \E driver \in Drivers, frame_skip \in 1..MaxSkip, buffer_seconds \in 0..MaxBuffer,
          sleep_buffer \in 0..MaxSleepBuffer, opened \in BOOLEAN :
          StartRun(driver, frame_skip, buffer_seconds, sleep_buffer, opened, LiveSource)
    \/ LiveFrame
    \/ \E db_available \in BOOLEAN : EndLoop(db_available)
    \/ \E outcome \in MatchOutcomes : AttribStep(outcome)

Spec == Init /\ [][Next]_vars

\* the scenarios of the specification: one frame per second, every frame sampled
ScenarioNext ==
    \/ \E driver \in Drivers, buffer_seconds \in ScenarioBuffers,
          sleep_buffer \in ScenarioDebounces, src \in ScriptedSources :
          StartRun(driver, 1, buffer_seconds, sleep_buffer, TRUE, src)
    \/ ScriptFrame
    \/ \E db_available \in BOOLEAN : EndLoop(db_available)
    \/ \E outcome \in MatchOutcomes : AttribStep(outcome)

SpecScenario == Init /\ [][ScenarioNext]_vars

\* the loop of a run on an endless or finite source is left only when the
\* read fails at the end of the source or the loop condition is false
CapEndLoop ==
    /\ source.kind \in {"endless", "finite"}
    /\ \/ source.kind = "finite" /\ loc.frame_count = source.n
       \/ ~BelowFrameCap(cfg.driver, loc.frame_count)
    /\ \E db_available \in BOOLEAN : EndLoop(db_available)

\* one run until its loop ends: the live drivers on a source that never ends
\* or ends after a few frames, process_video_file on a file of a few frames
CapNext ==
    \/ \E driver \in {"webcam", "url"}, src \in {EndlessSource} \cup FiniteSources :
          StartRun(driver, 1, 1, 0, TRUE, src)
    \/ \E src \in FiniteSources : StartRun("file", 1, 1, 0, TRUE, src)
    \/ CapFrame
    \/ CapEndLoop

SpecCap == Init /\ [][CapNext]_vars

\* a session: the driver is started up to MaxRuns times on the same
\* video_processor and violations_log, and an iteration may raise
SessionNext ==
    \/ \E driver \in Drivers, opened \in BOOLEAN :
          StartRun(driver, 1, 0, 0, opened, SessionSource)
    \/ \E driver \in Drivers, opened \in BOOLEAN :
          NextRun(driver, 1, 0, 0, opened, SessionSource)
    \/ SessionFrame
    \/ SessionRaise
    \/ \E db_available \in BOOLEAN : EndLoop(db_available)
    \/ \E outcome \in MatchOutcomes : AttribStep(outcome)

SpecSession == Init /\ [][SessionNext]_vars

\* one run on a source with sub-second frame times; buffer_seconds is given
\* in ticks: from one tick up to a whole second
SubsecondNext ==
    \/ \E driver \in Drivers, buffer_seconds \in 1..TicksPerSecond :
          StartRun(driver, 1, buffer_seconds, 0, TRUE, SubsecondSource)
    \/ SubsecondFrame
    \/ \E db_available \in BOOLEAN : EndLoop(db_available)
    \/ \E outcome \in MatchOutcomes : AttribStep(outcome)

SpecSubsecond == Init /\ [][SubsecondNext]_vars

\* one run of a driver beside which the other two drivers are given the
\* same frames, detections and clock readings
LockstepNext ==
    \/ \E driver \in Drivers, frame_skip \in 1..MaxSkip, buffer_seconds \in 0..MaxBuffer,
          sleep_buffer \in 0..MaxSleepBuffer :
          StartRun(driver, frame_skip, buffer_seconds, sleep_buffer, TRUE, LockstepSource)
    \/ LockstepFrame
    \/ EndLoop(FALSE)

SpecLockstep == Init /\ [][LockstepNext]_vars

\* one run of a driver, after which the report is generated
ReportNext ==
    \/ \E driver \in Drivers : StartRun(driver, 1, 0, 0, TRUE, SessionSource)
    \/ SessionFrame
    \/ \E db_available \in BOOLEAN : EndLoop(db_available)
    \/ \E outcome \in MatchOutcomes : AttribStep(outcome)
    \/ \E db_available \in BOOLEAN : GenerateReport(db_available)

SpecReport == Init /\ [][ReportNext]_vars

----------------------------------------------------------------------------
(* Properties *)

\* a step that runs one iteration of the frame loop
FrameStep == pc = "loop" /\ loc'.frame_count = loc.frame_count + 1

\* the frame loop was left by its own condition or by a failed read
LoopEnded == pc # "loop" /\ exit_reason \in {"eof", "cap"}

\* the indices of the log entries recorded for a path
EntriesFor(path) == {i \in 1..Len(violations_log) : violations_log[i].path = path}

\* in a scripted run, the second (counted from the first frame) of the last frame read
ScenarioT == loc.frame_count - 1

\* C1: when the frame loop ends while a segment is recording, the log holds
\* exactly one entry for that segment after the loop and no writer is open.
C1_ForcedCloseLogged ==
    (LoopEnded /\ loc.recording) =>
        /\ Cardinality(EntriesFor(loc.current_segment_path)) = 1
        /\ vp.writer = NoPath

\* C2 (as stated): with a single confirmation at second n and one frame per
\* second, the segment is recording before second n + buffer_seconds and is
\* closed, with its entry logged, at the frame of second n + buffer_seconds.
C2_ClosesAtBufferEnd ==
    (source.kind = "phone_once" /\ loc.frame_count > 0) =>
        LET n == source.n
            B == cfg.buffer_seconds
        IN  /\ (n <= ScenarioT /\ ScenarioT < n + B) => loc.recording
            /\ ScenarioT = n + B =>
                   /\ ~loc.recording
                   /\ Len(violations_log) = 1
                   /\ violations_log[1].violation = <<"phone">>

\* C2 (amended): with a single confirmation at second n and one frame per
\* second, nothing is recorded before second n, the segment is recording at
\* every frame up to and including second n + buffer_seconds, and it is
\* closed at the frame of second n + buffer_seconds + 1, with exactly one
\* entry whose violation types are {phone}.
C2_ClosesAfterBufferEnd ==
    (source.kind = "phone_once" /\ loc.frame_count > 0) =>
        LET n == source.n
            B == cfg.buffer_seconds
        IN  /\ ScenarioT < n => (~loc.recording /\ violations_log = <<>>)
            /\ (n <= ScenarioT /\ ScenarioT <= n + B) =>
                   /\ loc.recording
                   /\ loc.last_detection_time = Epoch + n
                   /\ loc.rec_violations = {"phone"}
                   /\ violations_log = <<>>
            /\ ScenarioT > n + B =>
                   /\ ~loc.recording
                   /\ vp.writer = NoPath
                   /\ Len(violations_log) = 1
                   /\ violations_log[1].violation = <<"phone">>
                   /\ violations_log[1].path = SegmentPath(Epoch + n)
                   /\ violations_log[1].time = LogTime(Epoch + n + B + 1)

\* the phone detected once at t=5 with buffer 10: closed at the frame of t=16
C2_Witness ==
    /\ source = [kind |-> "phone_once", n |-> 5]
    /\ cfg.buffer_seconds = 10
    /\ pc = "loop"
    /\ ScenarioT = 16
    /\ "append" \in calls
    /\ Len(violations_log) = 1

\* C3: on every frame, sampled or not, a segment that is recording is closed
\* exactly when now - last_detection_time > buffer_seconds; closing releases
\* the writer, clears recording and appends exactly one pending entry with
\* the segment's path and accumulated violation types; otherwise the log is
\* unchanged and a recording segment stays open.
C3_CloseCondition ==
    [][FrameStep =>
        LET was_recording == loc.recording \/ "start_recording" \in calls'
            expired == (loc'.current_time - loc'.last_detection_time) > cfg.buffer_seconds
            n == Len(violations_log)
        IN  IF was_recording /\ expired
            THEN /\ vp'.writer = NoPath
                 /\ ~vp'.recording
                 /\ ~loc'.recording
                 /\ Len(violations_log') = n + 1
                 /\ SubSeq(violations_log', 1, n) = violations_log
                 /\ violations_log'[n + 1].path = loc'.current_segment_path
                 /\ Range(violations_log'[n + 1].violation) = loc'.rec_violations
                 /\ Len(violations_log'[n + 1].violation) = Cardinality(loc'.rec_violations)
                 /\ violations_log'[n + 1].student = Pending
                 /\ violations_log'[n + 1].confidence = NoConfidence
            ELSE /\ violations_log' = violations_log
                 /\ was_recording => (loc'.recording /\ vp'.writer = loc'.current_segment_path)
      ]_vars

\* a segment closed on a frame that was not sampled
C3_Witness ==
    /\ pc = "loop"
    /\ "append" \in calls
    /\ "detect_frame" \notin calls
    /\ loc.current_time - loc.last_detection_time > cfg.buffer_seconds
    /\ violations_log # <<>>

\* C4 (as stated): debounce 10, buffer 10, every frame sampled, one frame per
\* second, 'sleeping' on the frames of t=0..10 and nothing afterwards: nothing
\* is confirmed or recorded up to t=9, the frame of t=10 confirms and opens a
\* segment, the segment stays open for t=11..19 and is closed at t=20 with
\* violation types {sleeping}.
C4_ClosesAtTwenty ==
    (/\ source = [kind |-> "sleep_run", n |-> 11]
     /\ cfg.sleep_buffer = 10
     /\ cfg.buffer_seconds = 10
     /\ loc.frame_count > 0) =>
        /\ ScenarioT <= 9 => (loc.confirmed_violations = {} /\ ~loc.recording)
        /\ ScenarioT = 10 => (loc.confirmed_violations = {"sleeping"} /\ loc.recording)
        /\ (11 <= ScenarioT /\ ScenarioT <= 19) => loc.recording
        /\ ScenarioT = 20 =>
               /\ ~loc.recording
               /\ Len(violations_log) = 1
               /\ violations_log[1].violation = <<"sleeping">>

\* C4 (amended): with 'sleeping' on the frames of seconds 0..n-1 and nothing
\* afterwards, debounce D and buffer B: if n <= D nothing is ever confirmed
\* or recorded; otherwise nothing is confirmed or recorded before second D,
\* 'sleeping' is confirmed on the frames of seconds D..n-1, the segment
\* opened at second D stays open up to and including second n-1+B and is
\* closed at second n+B with violation types exactly {sleeping} (debounce 10,
\* buffer 10, n = 11: open at t=10, still open at t=20, closed at t=21).
C4_SleepScenario ==
    (source.kind = "sleep_run" /\ loc.frame_count > 0) =>
        LET n == source.n
            D == cfg.sleep_buffer
            B == cfg.buffer_seconds
            t == ScenarioT
        IN  /\ (n <= D \/ t < D) =>
                   /\ loc.confirmed_violations = {}
                   /\ ~loc.recording
                   /\ violations_log = <<>>
            /\ (D < n /\ D <= t /\ t <= n - 1) => loc.confirmed_violations = {"sleeping"}
            /\ (D < n /\ t >= n) => loc.confirmed_violations = {}
            /\ (D < n /\ D <= t /\ t <= n - 1 + B) =>
                   /\ loc.recording
                   /\ loc.rec_violations = {"sleeping"}
                   /\ loc.current_segment_path = SegmentPath(Epoch + D)
                   /\ violations_log = <<>>
            /\ (D < n /\ t >= n + B) =>
                   /\ ~loc.recording
                   /\ Len(violations_log) = 1
                   /\ violations_log[1].violation = <<"sleeping">>
                   /\ violations_log[1].path = SegmentPath(Epoch + D)
                   /\ violations_log[1].time = LogTime(Epoch + n + B)

\* debounce 10, buffer 10, sleeping on t=0..10: the segment is closed at t=21
C4_Witness ==
    /\ source = [kind |-> "sleep_run", n |-> 11]
    /\ cfg.sleep_buffer = 10
    /\ cfg.buffer_seconds = 10
    /\ pc = "loop"
    /\ ScenarioT = 21
    /\ "append" \in calls
    /\ Len(violations_log) = 1

\* C5: a frame starts a recording if and only if its confirmed set is
\* non-empty and no segment is recording; on that frame rec_violations is
\* exactly the confirmed set, last_detection_time is the frame's time and the
\* writer is open on the new path.
C5_OpenCondition ==
    [][FrameStep =>
        /\ "start_recording" \in calls' <=>
               (loc'.confirmed_violations # {} /\ ~loc.recording)
        /\ (~loc.recording /\ loc'.recording) <=> "start_recording" \in calls'
        /\ "start_recording" \in calls' =>
               /\ loc'.rec_violations = loc'.confirmed_violations
               /\ loc'.last_detection_time = loc'.current_time
               /\ loc'.current_segment_path = SegmentPath(loc'.current_time)
               /\ vp'.writer = loc'.current_segment_path
        /\ loc'.confirmed_violations = {} => ~(~loc.recording /\ loc'.recording)
      ]_vars

\* a segment was opened on the last frame
C5_Witness ==
    /\ pc = "loop"
    /\ "start_recording" \in calls
    /\ loc.recording
    /\ loc.rec_violations = loc.confirmed_violations
    /\ loc.confirmed_violations # {}

\* a frame that shows only 'sleeping' inside its debounce opens nothing
C5_DebounceWitness ==
    /\ pc = "loop"
    /\ "detect_frame" \in calls
    /\ loc.last_detections = {"sleeping"}
    /\ loc.confirmed_violations = {}
    /\ ~loc.recording

\* C6: the violation types in the log entry of every closed segment are the
\* union of the confirmed sets of the frames from its opening frame to its
\* closing frame, each type once, whatever the order of the confirmations.
C6_UnionOfConfirmed ==
    /\ Len(hist.closed) = Len(violations_log)
    /\ \A i \in 1..Len(violations_log) :
           /\ Range(violations_log[i].violation) = hist.closed[i]
           /\ Len(violations_log[i].violation) = Cardinality(hist.closed[i])

\* a segment was closed whose types were confirmed on different frames
C6_Witness ==
    /\ "append" \in calls
    /\ violations_log # <<>>
    /\ Range(violations_log[Len(violations_log)].violation) = {"phone", "sleeping"}
    /\ loc.last_confirmed_violations # {"phone", "sleeping"}
    /\ hist.seg_union = {"phone", "sleeping"}

\* C7: on a sampled frame that shows 'sleeping', 'sleeping' is confirmed if
\* and only if the time since the first frame of the current unbroken run of
\* sampled 'sleeping' frames is at least sleep_buffer.
C7_DebounceInclusive ==
    ("detect_frame" \in calls /\ "sleeping" \in loc.last_detections) =>
        /\ hist.sleep_run_t0 # None
        /\ "sleeping" \in loc.confirmed_violations <=>
               loc.current_time - hist.sleep_run_t0 >= cfg.sleep_buffer

\* 'sleeping' confirmed exactly at the boundary of a non-zero debounce
C7_Witness ==
    /\ "detect_frame" \in calls
    /\ cfg.sleep_buffer > 0
    /\ "sleeping" \in loc.confirmed_violations
    /\ loc.current_time - hist.sleep_run_t0 = cfg.sleep_buffer

\* C8: a sampled frame without 'sleeping' resets the sleep timer to null, and
\* 'sleeping' is confirmed only after an unbroken run of sampled 'sleeping'
\* frames spanning at least sleep_buffer since the first such frame after the
\* last gap; the timer never reaches back before that frame.
C8_GapRestartsDebounce ==
    /\ ("detect_frame" \in calls /\ "sleeping" \notin loc.last_detections) =>
           loc.sleep_start_time = None
    /\ loc.sleep_start_time # None => loc.sleep_start_time = hist.sleep_run_t0
    /\ "sleeping" \in loc.confirmed_violations =>
           /\ hist.sleep_run_t0 # None
           /\ loc.current_time - hist.sleep_run_t0 >= cfg.sleep_buffer

\* 'sleeping' shown again after a gap and not confirmed, although the time
\* since its first sighting of the run already covers the debounce
C8_Witness ==
    /\ hist.sleep_gap
    /\ "detect_frame" \in calls
    /\ cfg.sleep_buffer > 0
    /\ "sleeping" \in loc.last_detections
    /\ "sleeping" \notin loc.confirmed_violations
    /\ hist.sleep_first # None
    /\ loc.current_time - hist.sleep_first >= cfg.sleep_buffer

\* C9: on a sampled frame every class other than 'sleeping' in the
\* detections is confirmed on that frame with the frame's time as the
\* returned confirmation time, and nothing outside the detections is
\* confirmed.
C9_OthersConfirmedOnSight ==
    "detect_frame" \in calls =>
        /\ \A c \in loc.last_detections :
               c # "sleeping" =>
                   /\ c \in loc.confirmed_violations
                   /\ loc.detection_time = loc.current_time
        /\ loc.confirmed_violations \subseteq loc.last_detections

\* 'phone' confirmed on a frame on which 'sleeping' is still being debounced
C9_Witness ==
    /\ "detect_frame" \in calls
    /\ loc.last_detections = {"phone", "sleeping"}
    /\ loc.confirmed_violations = {"phone"}
    /\ loc.sleep_start_time # None
    /\ loc.detection_time = loc.current_time

\* C10: when the matcher raises for log entry k, only the student and
\* confidence fields of entry k change: the log keeps its length, every
\* other entry is unchanged and entry k keeps its path, time and violation.
C10_FailureIsolated ==
    [][(pc = "attrib" /\ todo' # todo /\ "match_raised" \in calls') =>
        LET k == Head(todo)
        IN  /\ Len(violations_log') = Len(violations_log)
            /\ \A j \in 1..Len(violations_log) :
                   j # k => violations_log'[j] = violations_log[j]
            /\ violations_log'[k].path = violations_log[k].path
            /\ violations_log'[k].time = violations_log[k].time
            /\ violations_log'[k].violation = violations_log[k].violation
            /\ violations_log'[k].student = NotRecognized
            /\ violations_log'[k].confidence = AnalysisError
      ]_vars

\* the matcher raised for one entry of a log in which another entry is resolved
C10_Witness ==
    /\ "match_raised" \in calls
    /\ \E i, j \in 1..Len(violations_log) :
           /\ violations_log[i].confidence = AnalysisError
           /\ violations_log[j].student = "Ivanov"

\* the indices of the entries of a log that are still pending
PendingEntries(log) == {i \in 1..Len(log) : log[i].student = Pending}

\* C11: with the database available the attribution pass is given exactly
\* the pending entries in log order; each step takes the first entry that is
\* still pending, gives it a terminal value (the analysis-error status when
\* the matcher raised) and goes on with the rest, and the driver returns
\* from the pass exactly when no entry is pending any more.
C11_PassVisitsAllPending ==
    [][/\ (pc = "loop" /\ pc' = "attrib") =>
              /\ Range(todo') = PendingEntries(violations_log')
              /\ \A a, b \in 1..Len(todo') : a < b => todo'[a] < todo'[b]
       /\ (pc = "attrib" /\ todo' # todo) =>
              LET k == Head(todo)
              IN  /\ k \in PendingEntries(violations_log)
                  /\ \A j \in PendingEntries(violations_log) : k <= j
                  /\ violations_log'[k].student # Pending
                  /\ "match_raised" \in calls' =>
                         /\ violations_log'[k].student = NotRecognized
                         /\ violations_log'[k].confidence = AnalysisError
                  /\ PendingEntries(violations_log') = PendingEntries(violations_log) \ {k}
                  /\ Range(todo') = PendingEntries(violations_log')
                  /\ pc' = "idle" <=> PendingEntries(violations_log') = {}
      ]_vars

\* a pass over two entries has returned: the matcher raised for the first
\* entry and the second entry was still resolved
C11_Witness ==
    /\ pc = "idle"
    /\ LoopEnded
    /\ Len(violations_log) = 2
    /\ violations_log[1].confidence = AnalysisError
    /\ violations_log[2].student = "Ivanov"
    /\ "match_returned" \in calls

\* C12: when the matcher is absent or its database is unavailable, the pass
\* gives every pending entry the no-database status and changes nothing
\* else: the log keeps its length, entries that were already terminal are
\* unchanged, no entry is left pending, and the driver returns without a
\* single matcher call.
C12_NoDatabasePass ==
    [][(pc = "loop" /\ "db_unavailable" \in calls') =>
        /\ Len(violations_log') = Len(violations_log)
        /\ \A i \in 1..Len(violations_log) :
               IF violations_log[i].student = Pending
               THEN violations_log'[i] =
                        [violations_log[i] EXCEPT !.student = NotRecognized,
                                                  !.confidence = NoDatabase]
               ELSE violations_log'[i] = violations_log[i]
        /\ PendingEntries(violations_log') = {}
        /\ pc' = "idle"
        /\ todo' = <<>>
        /\ calls' \cap {"match_raised", "match_returned"} = {}
      ]_vars

\* a pass without a database over a log that holds an entry resolved by an
\* earlier run and an entry that was pending
C12_Witness ==
    /\ pc = "idle"
    /\ "db_unavailable" \in calls
    /\ Len(violations_log) = 2
    /\ violations_log[1].student = "Ivanov"
    /\ violations_log[2].student = NotRecognized
    /\ violations_log[2].confidence = NoDatabase

\* C13: whenever the attribution loop is about to call the matcher, and
\* whenever it has just called it, the VideoProcessor has no open writer and
\* is not recording; and once the loop has been entered no frame is read or
\* written in that run.
C13_MatcherAfterRelease ==
    [][/\ (pc' = "attrib" \/ calls' \cap {"match_raised", "match_returned"} # {}) =>
              (vp'.writer = NoPath /\ ~vp'.recording)
       /\ pc = "attrib" =>
              /\ loc' = loc
              /\ vp' = vp
              /\ calls' \cap {"detect_frame", "write_frame", "start_recording"} = {}
      ]_vars

\* C14: whenever a driver has returned, by whatever exit path, the
\* VideoProcessor's writer has been released.
C14_WriterReleasedOnReturn ==
    (pc = "idle" /\ runs > 0) => (vp.writer = NoPath /\ ~vp.recording)

\* C15: the segments opened during one run have pairwise distinct output
\* paths: no two log entries of the run share a path, and the path of the
\* segment that is being recorded is not the path of a logged segment.
C15_DistinctPaths ==
    /\ \A i, j \in 1..Len(violations_log) :
           i # j => violations_log[i].path # violations_log[j].path
    /\ loc.recording =>
           \A i \in 1..Len(violations_log) :
               violations_log[i].path # loc.current_segment_path

\* C16: in a session of several runs on one log, no step removes an entry,
\* an entry that is terminal is never changed again, and the identity fields
\* of an entry change only in a step of an attribution pass that takes the
\* entry from pending to a terminal value, leaving its other fields alone.
C16_IdentityWrittenOnce ==
    [][/\ Len(violations_log') >= Len(violations_log)
       /\ \A i \in 1..Len(violations_log) :
              /\ violations_log[i].student # Pending =>
                     violations_log'[i] = violations_log[i]
              /\ violations_log'[i] # violations_log[i] =>
                     /\ violations_log[i].student = Pending
                     /\ violations_log[i].confidence = NoConfidence
                     /\ violations_log'[i].student # Pending
                     /\ violations_log'[i].confidence # NoConfidence
                     /\ violations_log'[i].path = violations_log[i].path
                     /\ violations_log'[i].time = violations_log[i].time
                     /\ violations_log'[i].violation = violations_log[i].violation
                     /\ calls' \cap {"match_raised", "match_returned", "db_unavailable"} # {}
      ]_vars

\* the pass of a second run has resolved the entry of that run; the entry
\* resolved by the first run is in the log with its first result
C16_Witness ==
    /\ runs = 2
    /\ pc = "idle"
    /\ "match_raised" \in calls
    /\ Len(violations_log) = 2
    /\ violations_log[1].student = "Ivanov"
    /\ violations_log[2].confidence = AnalysisError

\* C17: a frame of the loop leaves the log as it is or appends one entry at
\* its end: the length never decreases and the old entries keep their
\* values and positions.  The appended entry is that of the segment closed
\* on this frame, stamped with the frame's time, and the entries are in the
\* order in which their segments were opened and closed: each segment was
\* opened no later than it was closed and no earlier than the segment of
\* the entry before it was closed.
C17_AppendOnlyChronological ==
    [][FrameStep =>
        LET n == Len(violations_log)
            log == violations_log'
        IN  /\ Len(log) \in {n, n + 1}
            /\ SubSeq(log, 1, n) = violations_log
            /\ Len(log) = n + 1 <=> "append" \in calls'
            /\ Len(log) = n + 1 =>
                   /\ log[n + 1].path = loc'.current_segment_path
                   /\ log[n + 1].time = LogTime(loc'.current_time)
            /\ \A i \in 1..Len(log) :
                   /\ log[i].path.dir = setup_output_dirs(log[i].time)
                   /\ log[i].path.file <= log[i].time
                   /\ i < Len(log) => log[i].time <= log[i + 1].path.file
      ]_vars

\* a second segment was closed on the last frame and logged after the first
C17_Witness ==
    /\ pc = "loop"
    /\ "append" \in calls
    /\ Len(violations_log) = 2
    /\ violations_log[2].path = loc.current_segment_path
    /\ violations_log[1].path # violations_log[2].path
    /\ violations_log[1].time <= violations_log[2].path.file

\* C18: in every driver the 'violation' value of every log entry is the
\* sorted rendering of its set of violation types, so that entries with the
\* same set of types carry the same value.
C18_ViolationSorted ==
    /\ \A i \in 1..Len(violations_log) :
           violations_log[i].violation = SortedJoin(Range(violations_log[i].violation))
    /\ \A i, j \in 1..Len(violations_log) :
           Range(violations_log[i].violation) = Range(violations_log[j].violation) =>
               violations_log[i].violation = violations_log[j].violation

\* C19: after every frame of a run, sleep_start_time is set if and only if
\* the most recent sampled frame showed 'sleeping' (before the first sampled
\* frame it is not set), and when set it is the time of the first frame of
\* the current unbroken run of sampled frames that show 'sleeping'.
C19_SleepTimerTracksRun ==
    /\ loc.sleep_start_time # None <=> "sleeping" \in loc.last_detections
    /\ loc.sleep_start_time # None <=> hist.sleep_run_t0 # None
    /\ loc.sleep_start_time # None =>
           /\ loc.sleep_start_time = hist.sleep_run_t0
           /\ loc.sleep_start_time <= loc.current_time

\* the timer still holds the time of an earlier frame after a frame that
\* was not sampled
C19_Witness ==
    /\ pc = "loop"
    /\ "detect_frame" \notin calls
    /\ loc.frame_count >= 3
    /\ loc.sleep_start_time # None
    /\ loc.sleep_start_time < loc.current_time
    /\ "sleeping" \in loc.last_detections

\* C20: at every frame boundary of a run, a driver that is recording has a
\* segment path and a non-empty set of accumulated violation types.
C20_RecordingHasPathAndTypes ==
    loc.recording =>
        /\ loc.current_segment_path # NoPath
        /\ loc.current_segment_path.dir # None
        /\ loc.current_segment_path.file # None
        /\ loc.rec_violations # {}

\* a segment that was opened on an earlier frame is still recording after a
\* frame that confirmed a further violation
C20_Witness ==
    /\ pc = "loop"
    /\ loc.recording
    /\ "start_recording" \notin calls
    /\ loc.confirmed_violations # {}
    /\ loc.confirmed_violations # loc.rec_violations
    /\ loc.current_segment_path # NoPath

\* C21: a frame whose confirmed set is empty (nothing detected, 'sleeping'
\* still inside its debounce, or a frame that is not sampled) leaves
\* last_detection_time unchanged; once set, last_detection_time is never
\* reset to null and never decreases during the run.
C21_LastDetectionTimeKept ==
    [][FrameStep =>
        /\ loc'.confirmed_violations = {} =>
               loc'.last_detection_time = loc.last_detection_time
        /\ loc.last_detection_time # None =>
               /\ loc'.last_detection_time # None
               /\ loc'.last_detection_time >= loc.last_detection_time
        /\ loc'.last_detection_time # loc.last_detection_time =>
               loc'.last_detection_time = loc'.current_time
      ]_vars

\* a sampled frame shows only 'sleeping' inside its debounce while the time
\* of an earlier confirmation is kept
C21_Witness ==
    /\ pc = "loop"
    /\ "detect_frame" \in calls
    /\ loc.last_detections = {"sleeping"}
    /\ loc.confirmed_violations = {}
    /\ loc.last_detection_time # None
    /\ loc.last_detection_time < loc.current_time

\* C22: the detector and the filter run on exactly the frames whose 1-based
\* frame_count is a multiple of frame_skip.  On every other frame
\* sleep_start_time, last_detection_time and last_detections are unchanged,
\* last_confirmed_violations is unchanged unless the frame closes the
\* segment (process_webcam and process_video_file then clear it), nothing is
\* confirmed, no segment is opened and the violation types of an open
\* segment are not extended.
C22_SamplingEveryNth ==
    [][FrameStep =>
        /\ "detect_frame" \in calls' <=> loc'.frame_count % cfg.frame_skip = 0
        /\ "detect_frame" \notin calls' =>
               /\ loc'.sleep_start_time = loc.sleep_start_time
               /\ loc'.last_detection_time = loc.last_detection_time
               /\ loc'.last_detections = loc.last_detections
               /\ loc'.detection_time = loc.detection_time
               /\ \/ loc'.last_confirmed_violations = loc.last_confirmed_violations
                  \/ /\ "stop_recording" \in calls'
                     /\ cfg.driver # "url"
                     /\ loc'.last_confirmed_violations = {}
               /\ loc'.confirmed_violations = {}
               /\ "start_recording" \notin calls'
               /\ loc'.rec_violations = loc.rec_violations
      ]_vars

\* with frame_skip = 2, a frame that is not sampled passes while a segment
\* is recording and the last sampled frame showed a violation
C22_Witness ==
    /\ pc = "loop"
    /\ cfg.frame_skip = 2
    /\ loc.frame_count = 3
    /\ "detect_frame" \notin calls
    /\ loc.recording
    /\ loc.last_detections # {}
    /\ loc.last_confirmed_violations # {}

\* C23: the frame loop of every run terminates.  While the loop runs some
\* step of it can always be taken, every step reads one more frame or
\* leaves the loop, and the number of frames read is bounded: a source that
\* ends (or fails to read) after n frames ends the loop after exactly n
\* frames; on a source that never ends process_webcam leaves the loop after
\* exactly 9000 frames and process_video_url after exactly 3000 frames.
C23_LoopTerminates ==
    /\ [](/\ cfg.driver = "webcam" => loc.frame_count <= 9000
          /\ cfg.driver = "url" => loc.frame_count <= 3000
          /\ source.kind = "finite" => loc.frame_count <= source.n
          /\ pc = "loop" => (ENABLED CapFrame \/ ENABLED CapEndLoop)
          /\ (source.kind = "endless" /\ pc # "loop" /\ runs > 0) =>
                 /\ exit_reason = "cap"
                 /\ cfg.driver = "webcam" => loc.frame_count = 9000
                 /\ cfg.driver = "url" => loc.frame_count = 3000
          /\ (source.kind = "finite" /\ pc # "loop" /\ runs > 0) =>
                 /\ exit_reason = "eof"
                 /\ loc.frame_count = source.n)
    /\ [][pc = "loop" =>
             \/ pc' # "loop" /\ loc' = loc
             \/ pc' = "loop" /\ loc'.frame_count = loc.frame_count + 1]_vars

\* process_video_url has left its loop at the frame cap on a source that
\* never ends, while a segment was recording
C23_Witness ==
    /\ source.kind = "endless"
    /\ cfg.driver = "url"
    /\ pc = "idle"
    /\ exit_reason = "cap"
    /\ loc.frame_count = 3000
    /\ loc.recording
    /\ vp.writer = NoPath

\* C24: when a read fails the loop is left at once: no frame is processed
\* in that step, the writer is released if a segment is recording, the
\* attribution pass runs over a non-empty log (it enters the matcher loop or
\* leaves no entry pending), and the driver goes on to return normally with
\* the processing flag cleared.
C24_ReadFailureEndsRun ==
    [][(pc = "loop" /\ pc' # "loop" /\ exit_reason' = "eof") =>
        /\ loc' = loc
        /\ clock' = clock
        /\ calls' \cap {"detect_frame", "start_recording", "write_frame", "append", "raised"} = {}
        /\ Len(violations_log') = Len(violations_log)
        /\ IF loc.recording
           THEN vp'.writer = NoPath /\ ~vp'.recording /\ "stop_recording" \in calls'
           ELSE vp' = vp
        /\ violations_log # <<>> =>
               /\ calls' \cap {"db_available", "db_unavailable"} # {}
               /\ pc' = "attrib" \/ PendingEntries(violations_log') = {}
        /\ pc' = "attrib" => (todo' # <<>> /\ processing')
        /\ pc' = "idle" => ~processing'
      ]_vars

\* a read failed while a segment was recording and an earlier segment was
\* in the log: the writer is released and the matcher loop is entered
C24_Witness ==
    /\ exit_reason = "eof"
    /\ pc = "attrib"
    /\ loc.recording
    /\ "stop_recording" \in calls
    /\ "db_available" \in calls
    /\ vp.writer = NoPath
    /\ violations_log # <<>>

\* C25: when video_processor.write_frame raises while a segment is open,
\* the recording of that segment is ended (the writer is released) and the
\* log has an entry for the segment.
C25_WriterFailureLogged ==
    (/\ pc = "idle"
     /\ exit_reason = "exception"
     /\ "write_frame" \in calls
     /\ "written" \notin calls) =>
        /\ vp.writer = NoPath
        /\ ~vp.recording
        /\ EntriesFor(loc.current_segment_path) # {}

\* C26: a driver that was called with an invalid configuration (frame_skip
\* below 1, buffer_seconds not positive, or a negative sleep_buffer) reads
\* no frame, opens no segment and creates no log entry.
C26_InvalidConfigRejected ==
    (/\ runs > 0
     /\ \/ cfg.frame_skip < 1
        \/ cfg.buffer_seconds <= 0
        \/ cfg.sleep_buffer < 0) =>
        /\ loc.frame_count = 0
        /\ loc.current_segment_path = NoPath
        /\ vp.writer = NoPath
        /\ violations_log = <<>>

\* C27: on every frame of every driver the classes given to draw_detections
\* are classes of the latest sampled detections that are also in the latest
\* confirmed set (the set confirmed on this frame when it is sampled, the
\* carried last_confirmed_violations otherwise); 'sleeping' is given only
\* when the unbroken run of 'sleeping' frames has lasted sleep_buffer.
C27_DrawsDetectedAndConfirmed ==
    [][FrameStep =>
        LET requested == loc'.violations_to_draw
            latest_confirmed ==
                IF "detect_frame" \in calls'
                THEN loc'.confirmed_violations
                ELSE loc.last_confirmed_violations
        IN  /\ "draw_detections" \notin calls' => requested = {}
            /\ requested \subseteq loc'.last_detections \cap latest_confirmed
            /\ "sleeping" \in requested =>
                   /\ hist'.sleep_run_t0 # None
                   /\ loc'.current_time - hist'.sleep_run_t0 >= cfg.sleep_buffer
      ]_vars

\* a sampled frame shows 'phone' and 'sleeping', 'sleeping' is inside its
\* debounce, and only the boxes of 'phone' are requested
C27_Witness ==
    /\ pc = "loop"
    /\ cfg.sleep_buffer > 0
    /\ "detect_frame" \in calls
    /\ "draw_detections" \in calls
    /\ loc.last_detections = {"phone", "sleeping"}
    /\ loc.violations_to_draw = {"phone"}

\* C28: write_frame is called on exactly the frames on which a segment is
\* open when the write is reached: the frame that opens it, every frame up
\* to the one that closes it, and that closing frame too, which is written
\* before stop_recording releases the writer.  Each of these calls finds the
\* segment's writer open and writes; no frame is written while idle, and
\* VideoProcessor.write_frame writes nothing when no writer is open.
C28_WritesWhileSegmentOpen ==
    /\ [](vp.writer = NoPath => ~write_frame(vp))
    /\ [][FrameStep =>
            /\ "write_frame" \in calls' <=>
                   (loc.recording \/ "start_recording" \in calls')
            /\ "write_frame" \in calls' =>
                   /\ "written" \in calls'
                   /\ \/ "stop_recording" \in calls' /\ vp'.writer = NoPath
                      \/ /\ "stop_recording" \notin calls'
                         /\ loc'.recording
                         /\ vp'.writer = loc'.current_segment_path
            /\ "written" \in calls' => "write_frame" \in calls'
            /\ "stop_recording" \in calls' => "written" \in calls'
            /\ (~loc.recording /\ loc'.confirmed_violations = {}) =>
                   "write_frame" \notin calls'
       ]_vars

\* the frame that closes a segment opened on an earlier frame was written
\* and the writer is released
C28_Witness ==
    /\ pc = "loop"
    /\ "stop_recording" \in calls
    /\ "start_recording" \notin calls
    /\ "written" \in calls
    /\ ~loc.recording
    /\ vp.writer = NoPath

\* the collaborator calls of the recording state machine
RecorderCalls == {"start_recording", "write_frame", "written", "stop_recording", "append"}

\* C29: given the same frames, detections, clock readings and configuration,
\* process_webcam, process_video_file and process_video_url are in the same
\* recording state after every frame: they open, write and close segments
\* on the same frames, record to the same path, hold the same confirmation
\* time, sleep timer and accumulated violation types, and their logs have
\* entries with the same paths, times and sets of violation types.
C29_DriversAgree ==
    source.kind = "lockstep" =>
        LET tw == hist.twins
            a == tw["file"]
        IN  /\ pc = "loop" =>
                   /\ tw[cfg.driver].loc = loc
                   /\ tw[cfg.driver].vp = vp
                   /\ tw[cfg.driver].log = violations_log
            /\ \A d \in Drivers :
                   LET b == tw[d]
                   IN  /\ b.calls \cap RecorderCalls = a.calls \cap RecorderCalls
                       /\ b.vp = a.vp
                       /\ b.loc.frame_count = a.loc.frame_count
                       /\ b.loc.recording = a.loc.recording
                       /\ b.loc.current_segment_path = a.loc.current_segment_path
                       /\ b.loc.rec_violations = a.loc.rec_violations
                       /\ b.loc.last_detection_time = a.loc.last_detection_time
                       /\ b.loc.sleep_start_time = a.loc.sleep_start_time
                       /\ Len(b.log) = Len(a.log)
                       /\ \A i \in 1..Len(a.log) :
                              /\ b.log[i].path = a.log[i].path
                              /\ b.log[i].time = a.log[i].time
                              /\ Range(b.log[i].violation) = Range(a.log[i].violation)

\* with frame_skip = 2 the drivers have closed one segment of two violation
\* types and opened the next one, and process_video_url has written the
\* types of the closed segment in another order than process_video_file
C29_Witness ==
    /\ source.kind = "lockstep"
    /\ pc = "loop"
    /\ cfg.frame_skip = 2
    /\ Len(hist.twins["url"].log) = 1
    /\ Len(hist.twins["file"].log) = 1
    /\ hist.twins["url"].log[1].violation # hist.twins["file"].log[1].violation
    /\ hist.twins["url"].loc.recording
    /\ hist.twins["webcam"].loc.recording

\* C30: at every frame boundary of a run that has raised no exception, the
\* driver's local recording flag is true exactly when the VideoProcessor has
\* an open writer (recording set and writer not None).
C30_RecordingMatchesWriter ==
    pc = "loop" =>
        /\ loc.recording <=> vp.recording
        /\ loc.recording <=> vp.writer # NoPath
        /\ loc.recording => vp.writer = loc.current_segment_path

\* C31 (as stated): while a segment is recording last_detection_time is set
\* and not earlier than the time at which the segment was opened, no frame
\* both opens and closes a segment, and every segment whose writer has been
\* released has at least two written frames.
C31_ClosedSegmentHasTwoFrames ==
    /\ (pc = "loop" /\ loc.recording) =>
           /\ loc.last_detection_time # None
           /\ loc.last_detection_time >= hist.seg_t0
    /\ "start_recording" \in calls =>
           /\ "stop_recording" \notin calls
           /\ loc.last_detection_time = loc.current_time
    /\ (hist.seg_t0 # None /\ vp.writer = NoPath) => hist.seg_written >= 2

\* C31 (amended): as above, but two written frames are guaranteed only for a
\* segment closed by the close check of the frame loop; a segment that is
\* still open when the loop ends is released with at least one written
\* frame.
C31_LoopClosedSegmentHasTwoFrames ==
    /\ (pc = "loop" /\ loc.recording) =>
           /\ loc.last_detection_time # None
           /\ loc.last_detection_time >= hist.seg_t0
    /\ "start_recording" \in calls =>
           /\ "stop_recording" \notin calls
           /\ loc.last_detection_time = loc.current_time
    /\ (hist.seg_t0 # None /\ vp.writer = NoPath) =>
           IF loc.recording
           THEN pc # "loop" /\ hist.seg_written >= 1
           ELSE hist.seg_written >= 2

\* the second segment of a run has just been closed by the close check with
\* exactly two written frames
C31_Witness ==
    /\ pc = "loop"
    /\ "append" \in calls
    /\ Len(violations_log) = 2
    /\ hist.seg_written = 2
    /\ cfg.buffer_seconds = 0

\* C32: at every frame boundary of every driver last_confirmed_violations
\* (and the set confirmed on the frame) holds only class names of
\* last_detections, so that last_confirmed_violations, which
\* process_video_file gives to draw_detections, is the same set as the
\* intersection with last_detections that the other two drivers give.
C32_ConfirmedWithinDetections ==
    /\ loc.last_confirmed_violations \subseteq loc.last_detections
    /\ loc.confirmed_violations \subseteq loc.last_confirmed_violations
           \/ (loc.last_confirmed_violations = {} /\ "stop_recording" \in calls)
    /\ \A d \in Drivers :
           ViolationsToDraw(d, loc.last_detections, loc.last_confirmed_violations)
               = loc.last_confirmed_violations
    /\ loc.violations_to_draw \subseteq loc.last_detections

\* on a frame that is not sampled the carried confirmed set is a proper
\* subset of the carried detections: 'sleeping' is inside its debounce
C32_Witness ==
    /\ pc = "loop"
    /\ "detect_frame" \notin calls
    /\ loc.frame_count > 1
    /\ loc.last_detections = {"phone", "sleeping"}
    /\ loc.last_confirmed_violations = {"phone"}

\* C33: every return of a stream driver leaves st.session_state.processing
\* false: the return after a source that could not be opened, the return at
\* the end of the driver after the attribution pass, and the return from
\* the handler of the outer try; while a driver runs the flag is true.
C33_ProcessingClearedOnReturn ==
    /\ pc = "idle" => ~processing
    /\ pc # "idle" => processing
    /\ (pc = "idle" /\ runs > 0) =>
           exit_reason \in {"not_opened", "eof", "cap", "exception"}

\* the second run of a session has returned from the handler of the outer
\* try and the flag is cleared
C33_Witness ==
    /\ pc = "idle"
    /\ runs = 2
    /\ exit_reason = "exception"
    /\ "raised" \in calls
    /\ ~processing

\* C34: for every log entry the student label written by generate_report
\* agrees with the identity stored in the entry by the attribution pass: an
\* analysis-error entry is reported as analysis error, a no-database entry
\* as no database, and every other attributed entry under the student and
\* confidence the entry holds.
C34_ReportAgreesWithLedger ==
    \A i \in 1..Len(report) :
        LET e == violations_log[i]
            r == report[i].student_info
        IN  CASE e.student = Pending -> TRUE
              [] e.confidence = AnalysisError -> r.student = AnalysisError
              [] e.confidence = NoDatabase -> r.student = NoDatabase
              [] OTHER -> r.student = e.student /\ r.confidence = e.confidence

====
